---- MODULE Spec2Model ----
(***************************************************************************)
(* SquatLock-Data: the catalog merge (scripts/merge_catalogs.py) and the   *)
(* merge reducer of the request intake (scripts/request_to_pending.py).    *)
(*                                                                         *)
(* Python str values are TLA+ strings; TLC evaluates Len, SubSeq and \o on *)
(* them, so the string functions below work character by character as the  *)
(* Python ones do.  A Python list is a sequence, a dict a function whose    *)
(* DOMAIN is the set of keys that are present.                             *)
(***************************************************************************)
EXTENDS Integers, Sequences, FiniteSets, TLC

(***************************************************************************)
(* Strings                                                                 *)
(***************************************************************************)
Char(s, i) == SubSeq(s, i, i)

UpperAlphabet == "ABCDEFGHIJKLMNOPQRSTUVWXYZ"
LowerAlphabet == "abcdefghijklmnopqrstuvwxyz"

CharsOf(s) == { Char(s, i) : i \in 1..Len(s) }

Whitespace == {" ", "\t"}

UpperSet == CharsOf(UpperAlphabet)
LowerSet == CharsOf(LowerAlphabet)
DigitSet == CharsOf("0123456789")

\* str.lower() / str.upper(), one character
LowerMap == [c \in UpperSet |-> Char(LowerAlphabet, CHOOSE i \in 1..Len(UpperAlphabet) : Char(UpperAlphabet, i) = c)]
UpperMap == [c \in LowerSet |-> Char(UpperAlphabet, CHOOSE i \in 1..Len(LowerAlphabet) : Char(LowerAlphabet, i) = c)]

LowerChar(c) == IF c \in UpperSet THEN LowerMap[c] ELSE c
UpperChar(c) == IF c \in LowerSet THEN UpperMap[c] ELSE c

RECURSIVE Lower(_)
Lower(s) == IF s = "" THEN "" ELSE LowerChar(Char(s, 1)) \o Lower(SubSeq(s, 2, Len(s)))

RECURSIVE Upper(_)
Upper(s) == IF s = "" THEN "" ELSE UpperChar(Char(s, 1)) \o Upper(SubSeq(s, 2, Len(s)))

\* str.lstrip(chars): drops every leading character that is in the set
RECURSIVE LStripChars(_, _)
LStripChars(s, chars) ==
  IF s # "" /\ Char(s, 1) \in chars THEN LStripChars(SubSeq(s, 2, Len(s)), chars) ELSE s

RECURSIVE RStripChars(_, _)
RStripChars(s, chars) ==
  IF s # "" /\ Char(s, Len(s)) \in chars THEN RStripChars(SubSeq(s, 1, Len(s) - 1), chars) ELSE s

\* str.strip()
Strip(s) == RStripChars(LStripChars(s, Whitespace), Whitespace)

\* str.find(sub-character set): the first position holding one of chars, 0 if none
FindAny(s, chars) ==
  IF \E i \in 1..Len(s) : Char(s, i) \in chars
  THEN CHOOSE i \in 1..Len(s) : Char(s, i) \in chars /\ \A j \in 1..(i - 1) : Char(s, j) \notin chars
  ELSE 0

StartsWith(s, p) == Len(s) >= Len(p) /\ SubSeq(s, 1, Len(p)) = p

\* \w of the re module, for the characters the inputs use
WordChars == UpperSet \cup LowerSet \cup DigitSet \cup {"_"}

\* re.sub(r"[^...]", "", s): only the characters of keep stay
RECURSIVE FilterChars(_, _)
FilterChars(s, keep) ==
  IF s = "" THEN ""
  ELSE (IF Char(s, 1) \in keep THEN Char(s, 1) ELSE "") \o FilterChars(SubSeq(s, 2, Len(s)), keep)

\* re.sub(r"[\s_-]+", "-", s): every maximal run of separators becomes one "-"
Separators == Whitespace \cup {"_", "-"}

RECURSIVE CollapseSeparators(_)
CollapseSeparators(s) ==
  IF s = "" THEN ""
  ELSE IF Char(s, 1) \in Separators
       THEN "-" \o CollapseSeparators(LStripChars(s, Separators))
       ELSE Char(s, 1) \o CollapseSeparators(SubSeq(s, 2, Len(s)))

SlugMax == 64

SlugKeeps == WordChars \cup Whitespace \cup {"-"}

\* lines 17-18 and the cut s[:64] of line 19: the slug before the fallback
slug_cut(s) ==
  LET s1 == Lower(Strip(FilterChars(s, SlugKeeps)))
      s2 == CollapseSeparators(s1)
  IN  SubSeq(s2, 1, IF Len(s2) < SlugMax THEN Len(s2) ELSE SlugMax)

\* line 19: s[:64] or "app"
slug(s) == IF slug_cut(s) = "" THEN "app" ELSE slug_cut(s)

(***************************************************************************)
(* urlparse(u).netloc: the scheme is what precedes the first ":" when it   *)
(* starts with a letter and holds scheme characters only; the netloc is    *)
(* what follows "//" up to the first "/", "?" or "#".                      *)
(***************************************************************************)
SchemeChars == UpperSet \cup LowerSet \cup DigitSet \cup {"+", "-", "."}

urlparse_netloc(u) ==
  LET colon == FindAny(u, {":"})
      hasScheme == /\ colon > 1
                   /\ Char(u, 1) \in UpperSet \cup LowerSet
                   /\ \A i \in 1..(colon - 1) : Char(u, i) \in SchemeChars
      rest == IF hasScheme THEN SubSeq(u, colon + 1, Len(u)) ELSE u
      after == SubSeq(rest, 3, Len(rest))
      delim == FindAny(after, {"/", "?", "#"})
  IN  IF StartsWith(rest, "//")
      THEN (IF delim = 0 THEN after ELSE SubSeq(after, 1, delim - 1))
      ELSE ""

\* the characters of the argument of h.lstrip("www.")
WwwDotChars == CharsOf("www.")

host_from_url(u) ==
  LET h == Strip(Lower(urlparse_netloc(u)))
  IN  IF h # "" THEN LStripChars(h, WwwDotChars) ELSE ""

(***************************************************************************)
(* Python values.  A raw record is a dict as json.load returns it: any key *)
(* may be missing.  A raw list-typed field is PyList(<<...>>) (a JSON      *)
(* array of strings) or PyStr("...") (a bare string).                      *)
(***************************************************************************)
PyList(l) == [list |-> l]
PyStr(s) == [scalar |-> s]

\* dict.get(k) or default
Get(d, k, default) == IF k \in DOMAIN d THEN d[k] ELSE default

ensure_list(v) == IF "list" \in DOMAIN v THEN v.list ELSE <<v.scalar>>

ListFields == <<"schemes", "universalLinks", "webHosts", "aliases", "categories">>

Contains(seq, e) == \E i \in 1..Len(seq) : seq[i] = e

RECURSIVE uniqFrom(_, _)
uniqFrom(seq, out) ==
  IF seq = <<>> THEN out
  ELSE LET k == Strip(Head(seq))
       IN  uniqFrom(Tail(seq), IF k = "" \/ Contains(out, k) THEN out ELSE Append(out, k))

uniq(seq) == uniqFrom(seq, <<>>)

StripAll(seq) == [i \in 1..Len(seq) |-> Strip(seq[i])]
StripLowerAll(seq) == [i \in 1..Len(seq) |-> Lower(Strip(seq[i]))]

DefaultSymbol == "app.fill"
ViaManus == "manus"

\* lines 72-73: the name is appended to the aliases when it is not among them
add_name_alias_skipped(aliases, name) == aliases

add_name_alias(aliases, name) ==
  IF name # "" /\ ~Contains(aliases, name) THEN Append(aliases, name) ELSE aliases

normalize_app(app, cc) ==
  LET id0 == Strip(Get(app, "id", ""))
      name == Strip(Get(app, "name", ""))
      symbol == Strip(IF Get(app, "symbol", "") = "" THEN DefaultSymbol ELSE app.symbol)
      schemes == uniq(StripAll(ensure_list(Get(app, "schemes", PyList(<<>>)))))
      universalLinks == uniq(StripAll(ensure_list(Get(app, "universalLinks", PyList(<<>>)))))
      webHosts0 == uniq(StripLowerAll(ensure_list(Get(app, "webHosts", PyList(<<>>)))))
      ul_hosts == [i \in 1..Len(universalLinks) |-> host_from_url(universalLinks[i])]
      webHosts == uniq(webHosts0 \o SelectSeq(ul_hosts, LAMBDA h : h # ""))
      aliases0 == uniq(StripAll(ensure_list(Get(app, "aliases", PyList(<<>>)))))
      aliases == add_name_alias(aliases0, name)
      categories == uniq(StripLowerAll(ensure_list(Get(app, "categories", PyList(<<>>)))))
      src == Get(app, "source", [via |-> "", country |-> ""])
      via == IF Get(src, "via", "") = "" THEN ViaManus ELSE src.via
      country == IF Get(src, "country", "") = "" THEN Upper(cc) ELSE src.country
      id == IF id0 # "" THEN id0
            ELSE slug(IF name # "" THEN name ELSE IF webHosts # <<>> THEN webHosts[1] ELSE "app")
  IN  [id |-> id, name |-> name, symbol |-> symbol, schemes |-> PyList(schemes),
       universalLinks |-> PyList(universalLinks), webHosts |-> PyList(webHosts),
       aliases |-> PyList(aliases), categories |-> PyList(categories),
       source |-> [via |-> via, country |-> country]]

(***************************************************************************)
(* index_apps: the four dicts.  A value of the dicts is a reference to a   *)
(* record of the list; the model holds the record's position in the list   *)
(* instead.  by_id keeps the last record of an id, the others the list of  *)
(* all records of a key in list order (one entry per alias or host).       *)
(***************************************************************************)
StripLower(s) == Lower(Strip(s))

NonEmpty(seq) == SelectSeq(seq, LAMBDA e : e # "")

RECURSIVE Entries(_, _, _)
Entries(keyLists, k, i) ==
  IF i > Len(keyLists) THEN <<>>
  ELSE [j \in 1..Len(SelectSeq(keyLists[i], LAMBDA e : e = k)) |-> i] \o Entries(keyLists, k, i + 1)

KeyIndex(keyLists) ==
  [k \in UNION { { keyLists[i][j] : j \in 1..Len(keyLists[i]) } : i \in 1..Len(keyLists) }
     |-> Entries(keyLists, k, 1)]

index_apps(apps) ==
  LET n == Len(apps)
      ids == { apps[i].id : i \in 1..n } \ {""}
  IN  [by_id |-> [k \in ids |-> CHOOSE i \in 1..n : apps[i].id = k /\ \A j \in (i + 1)..n : apps[j].id # k],
       by_name |-> KeyIndex([i \in 1..n |-> NonEmpty(<<StripLower(apps[i].name)>>)]),
       by_alias |-> KeyIndex([i \in 1..n |-> NonEmpty(StripLowerAll(ensure_list(apps[i].aliases)))]),
       by_host |-> KeyIndex([i \in 1..n |-> NonEmpty(StripLowerAll(ensure_list(apps[i].webHosts)))])]

\* the first element of seq whose lower-cased form is a key of dict, "" if none
RECURSIVE FirstKeyIn(_, _)
FirstKeyIn(seq, dict) ==
  IF seq = <<>> THEN ""
  ELSE IF Lower(Head(seq)) \in DOMAIN dict THEN Lower(Head(seq)) ELSE FirstKeyIn(Tail(seq), dict)

NoMatch == 0

\* as find_match, with the host looked up before the aliases
find_match_host_first(a, idx) ==
  LET nm == Lower(a.name)
      al == FirstKeyIn(ensure_list(a.aliases), idx.by_alias)
      h == FirstKeyIn(ensure_list(a.webHosts), idx.by_host)
  IN  IF a.id # "" /\ a.id \in DOMAIN idx.by_id THEN idx.by_id[a.id]
      ELSE IF nm \in DOMAIN idx.by_name THEN idx.by_name[nm][1]
      ELSE IF h # "" THEN idx.by_host[h][1]
      ELSE IF al # "" THEN idx.by_alias[al][1]
      ELSE NoMatch

find_match(a, idx) ==
  LET nm == Lower(a.name)
      al == FirstKeyIn(ensure_list(a.aliases), idx.by_alias)
      h == FirstKeyIn(ensure_list(a.webHosts), idx.by_host)
  IN  IF a.id # "" /\ a.id \in DOMAIN idx.by_id THEN idx.by_id[a.id]
      ELSE IF nm \in DOMAIN idx.by_name THEN idx.by_name[nm][1]
      ELSE IF al # "" THEN idx.by_alias[al][1]
      ELSE IF h # "" THEN idx.by_host[h][1]
      ELSE NoMatch

\* as merge_lists, the draft's entries first
merge_lists_draft_first(dst, src, k) == uniq(ensure_list(src[k]) \o ensure_list(dst[k]))

\* as merge_lists, without the duplicates removed
merge_lists_no_dedup(dst, src, k) == ensure_list(dst[k]) \o ensure_list(src[k])

\* line 113
merge_lists(dst, src, k) == uniq(ensure_list(dst[k]) \o ensure_list(src[k]))

\* as merge_symbol, the draft's symbol always taken
merge_symbol_from_draft(dst, src) == IF src.symbol = "" THEN DefaultSymbol ELSE src.symbol

\* line 114
merge_symbol(dst, src) ==
  IF dst.symbol = "" THEN (IF src.symbol = "" THEN DefaultSymbol ELSE src.symbol) ELSE dst.symbol

\* as merge_source, the draft's country always taken
merge_source_from_draft(dst, src) ==
  [via |-> IF dst.source.via # ViaManus /\ src.source.via = ViaManus THEN ViaManus ELSE dst.source.via,
   country |-> IF src.source.country # "" THEN src.source.country ELSE dst.source.country]

\* lines 115-119
merge_source(dst, src) ==
  [via |-> IF dst.source.via # ViaManus /\ src.source.via = ViaManus THEN ViaManus ELSE dst.source.via,
   country |-> IF dst.source.country = "" /\ src.source.country # ""
               THEN src.source.country ELSE dst.source.country]

\* the name of dst is left as it is
merge_one(dst, src) ==
  [dst EXCEPT !.schemes = PyList(merge_lists(dst, src, "schemes")),
              !.universalLinks = PyList(merge_lists(dst, src, "universalLinks")),
              !.webHosts = PyList(merge_lists(dst, src, "webHosts")),
              !.aliases = PyList(merge_lists(dst, src, "aliases")),
              !.categories = PyList(merge_lists(dst, src, "categories")),
              !.symbol = merge_symbol(dst, src),
              !.source = merge_source(dst, src)]

(***************************************************************************)
(* request_to_pending.py: the reducer of the request intake.  A pending    *)
(* request file is a dict whose keys may be missing; source.country_list   *)
(* is a list of strings.                                                   *)
(***************************************************************************)
ViaIntake == "intake"
Global == "Global"

to_unique_list(items) == uniq(items)

\* as merge_countries, the country of this request put before the history
merge_countries_newest_first(src, inc_country) ==
  to_unique_list((IF inc_country # "" /\ inc_country # Global THEN <<inc_country>> ELSE <<>>) \o
                 (IF "country_list" \in DOMAIN src THEN src.country_list
                  ELSE IF Get(src, "country", "") # "" /\ src.country # Global THEN <<src.country>>
                  ELSE <<>>))

\* lines 289-297: the history so far, or the one country recorded, then the
\* country of this request
merge_countries(src, inc_country) ==
  to_unique_list((IF "country_list" \in DOMAIN src THEN src.country_list
                  ELSE IF Get(src, "country", "") # "" /\ src.country # Global THEN <<src.country>>
                  ELSE <<>>) \o
                 (IF inc_country # "" /\ inc_country # Global THEN <<inc_country>> ELSE <<>>))

merge_into(existing, incoming) ==
  LET union(k) == PyList(to_unique_list(Get(existing, k, PyList(<<>>)).list \o Get(incoming, k, PyList(<<>>)).list))
      src == Get(existing, "source", <<>>)
      inc_country == Get(Get(incoming, "source", <<>>), "country", "")
      countries == merge_countries(src, inc_country)
      srcKeys == DOMAIN src \cup {"country", "via"} \cup (IF countries # <<>> THEN {"country_list"} ELSE {})
      source == [k \in srcKeys |->
                   IF k = "country_list" THEN (IF countries # <<>> THEN countries ELSE src.country_list)
                   ELSE IF k = "country" THEN Get(src, "country", Global)
                   ELSE IF k = "via" THEN ViaIntake
                   ELSE src[k]]
      keys == DOMAIN existing \cup {"schemes", "universalLinks", "webHosts", "aliases", "categories",
                                    "name", "symbol", "source", "id"}
  IN  [k \in keys |->
         IF k \in {"schemes", "universalLinks", "webHosts", "aliases", "categories"} THEN union(k)
         ELSE IF k = "name" THEN Get(existing, "name", Get(incoming, "name", ""))
         ELSE IF k = "symbol" THEN Get(existing, "symbol", Get(incoming, "symbol", DefaultSymbol))
         ELSE IF k = "source" THEN source
         ELSE IF k = "id" THEN Get(existing, "id", Get(incoming, "id", ""))
         ELSE existing[k]]

(***************************************************************************)
(* Files.  A file is missing, a JSON array of records ("array"), a JSON    *)
(* object holding the array under "apps" ("wrapped"), or a file of records *)
(* that open() or json.load() raises IOError or JSONDecodeError on         *)
(* ("unreadable": a read error, or JSON text damaged by a trailing comma   *)
(* or a write cut short).                                                  *)
(***************************************************************************)
MissingFile == [kind |-> "missing"]
ArrayFile(apps) == [kind |-> "array", apps |-> apps]
WrappedFile(apps) == [kind |-> "wrapped", apps |-> apps]
UnreadableFile(apps) == [kind |-> "unreadable", apps |-> apps]

\* the records a file holds, readable or not
Records(f) == IF f.kind = "missing" THEN <<>> ELSE f.apps

\* lines 45, 53-54 return [] for a missing file and when reading raised
load_json(f) == IF f.kind \in {"array", "wrapped"} THEN f.apps ELSE <<>>

\* save_json writes the list as a JSON array
save_json(data) == ArrayFile(data)

\* Python's order of str: by code point, character by character
AsciiOrder == "\t !#+-./0123456789:?ABCDEFGHIJKLMNOPQRSTUVWXYZ_abcdefghijklmnopqrstuvwxyz"
OrdMap == [c \in CharsOf(AsciiOrder) |-> CHOOSE i \in 1..Len(AsciiOrder) : Char(AsciiOrder, i) = c]
Ord(c) == OrdMap[c]

RECURSIVE StrLess(_, _)
StrLess(a, b) ==
  IF b = "" THEN FALSE
  ELSE IF a = "" THEN TRUE
  ELSE IF Char(a, 1) = Char(b, 1) THEN StrLess(SubSeq(a, 2, Len(a)), SubSeq(b, 2, Len(b)))
  ELSE Ord(Char(a, 1)) < Ord(Char(b, 1))

\* list.sort(key=lambda x: (x.get("id") or "").lower()): stable
SortKey(a) == Lower(a.id)

RECURSIVE InsertSorted(_, _)
InsertSorted(sorted, a) ==
  IF sorted = <<>> THEN <<a>>
  ELSE IF StrLess(SortKey(a), SortKey(Head(sorted))) THEN <<a>> \o sorted
  ELSE <<Head(sorted)>> \o InsertSorted(Tail(sorted), a)

RECURSIVE SortFrom(_, _)
SortFrom(seq, sorted) ==
  IF seq = <<>> THEN sorted ELSE SortFrom(Tail(seq), InsertSorted(sorted, Head(seq)))

\* as sort_by_id, the list left in the order it has
sort_skipped(seq) == seq

sort_by_id(seq) == SortFrom(seq, <<>>)

(***************************************************************************)
(* Inputs.  The region, the catalogs a run may find on disk and the raw    *)
(* records a pending file may hold.                                        *)
(***************************************************************************)
CC == "jp"

RecA ==
  [id |-> "mc", name |-> "Mc", symbol |-> "cube", schemes |-> PyList(<<"mc">>),
   universalLinks |-> PyList(<<>>), webHosts |-> PyList(<<"mc.net">>),
   aliases |-> PyList(<<"Mc", "Mine">>), categories |-> PyList(<<"game">>),
   source |-> [via |-> "intake", country |-> "Global"]]

RecB ==
  [id |-> "yt", name |-> "Yt", symbol |-> "play", schemes |-> PyList(<<>>),
   universalLinks |-> PyList(<<"https://www.yt.com/">>), webHosts |-> PyList(<<"yt.com">>),
   aliases |-> PyList(<<"Yt", "Tube">>), categories |-> PyList(<<"video">>),
   source |-> [via |-> "manus", country |-> "JP"]]

CatalogChoices == { MissingFile, ArrayFile(<<RecA, RecB>>), UnreadableFile(<<RecA, RecB>>) }

\* id hits RecA, alias and host hit RecB; contributed from another region
DraftIdA ==
  [id |-> " mc ", name |-> "Blocks", aliases |-> PyList(<<"Tube">>),
   webHosts |-> PyList(<<"YT.com">>), source |-> [country |-> "US"]]
\* name hits RecA, alias hits RecB
DraftNameA == [id |-> "zz", name |-> "MC", symbol |-> "star", aliases |-> PyList(<<"TUBE">>)]
\* alias (a bare string) hits RecA, the universal link's host hits RecB
DraftAliasA ==
  [name |-> "Craft", aliases |-> PyStr("mine"), universalLinks |-> PyList(<<"https://www.yt.com/w">>)]
\* only the universal link's host hits RecB
DraftHostB == [name |-> "Clips", universalLinks |-> PyList(<<"https://WWW.YT.com/c", "https://www.yt.com/w">>)]
\* hits nothing
DraftNew == [id |-> "zz", name |-> "Zed", schemes |-> PyList(<<"zed", " zed">>)]
\* a host that starts with "w" and has no "www." prefix
DraftWiki == [name |-> "Wiki", universalLinks |-> PyList(<<"https://wiki.org/x">>)]
\* no name; the symbol is blank; the id is an upper-case letter
DraftAnon == [id |-> "Q", symbol |-> " ", webHosts |-> PyList(<<"Q.io">>)]
DraftQ == [id |-> "Q", name |-> "Quu", symbol |-> "star", categories |-> PyList(<<"Tool">>)]

DraftPool == { DraftIdA, DraftNameA, DraftAliasA, DraftHostB, DraftNew, DraftWiki, DraftAnon, DraftQ }

\* an element of the array that is a JSON string, not an object
NotARecord == PyStr("oops")
\* no id, no name, no web host, no universal link
DraftNone == [categories |-> PyList(<<"misc">>)]
\* an id with an upper-case letter
DraftUpper == [id |-> "Zed", name |-> "Zeta"]

\* line 62: dict(app or {}) raises ValueError on a string
Raises(a) == "scalar" \in DOMAIN a

RecordPool == DraftPool \cup { NotARecord }
EdgePool == { DraftNew, DraftUpper, DraftNone, NotARecord }
EdgeCatalogChoices == { MissingFile, ArrayFile(<<RecA, RecB>>) }

(***************************************************************************)
(* Inputs of the reducers.  merge_one is given a record of the in-memory   *)
(* catalog and a normalized draft.  merge_into is given the content of a   *)
(* pending request file and the draft generate_or_update builds (lines     *)
(* 249-271 and 346-348: every key present, source.via "intake").           *)
(***************************************************************************)
NormalizedPool == { normalize_app(r, CC) : r \in DraftPool \cup {RecA, RecB} }

IntakeDraft(id, name, aliases, hosts, country) ==
  [id |-> id, name |-> name, symbol |-> DefaultSymbol, schemes |-> PyList(<<>>),
   universalLinks |-> PyList(<<>>), webHosts |-> PyList(hosts), aliases |-> PyList(aliases),
   categories |-> PyList(<<>>), source |-> [country |-> country, via |-> ViaIntake]]

IntakeDrafts ==
  { IntakeDraft("mc", "Mc", <<"Mc", "Mine">>, <<"mc.net">>, "JP"),
    IntakeDraft("mc", "Mc", <<"Mc", "Mine", "mine">>, <<"mc.net">>, "US"),
    IntakeDraft("mc", "Mc", <<"Mc", "Mine">>, <<"mc.net">>, Global),
    IntakeDraft("zed", "Zed", <<"Zed">>, <<>>, "US") }

\* a pending request file: unreadable (read as {}), written by an earlier call, or edited by hand
PendingRequests ==
  IntakeDrafts \cup
  { <<>>,
    [id |-> "mc", name |-> "", symbol |-> "", aliases |-> PyList(<<"Mine">>),
     source |-> [country |-> "JP", via |-> ViaManus]],
    [id |-> "mc", name |-> "Mc", symbol |-> "cube", schemes |-> PyList(<<"mc">>),
     universalLinks |-> PyList(<<>>), webHosts |-> PyList(<<"mc.net">>),
     aliases |-> PyList(<<"Mc">>), categories |-> PyList(<<"game">>),
     source |-> [country |-> Global, via |-> ViaIntake, country_list |-> <<"JP", "KR">>]] }

MaxApply == 2

MaxRecs == 2
MaxEdgeRecs == 3
MaxFiles == 2
MaxRuns == 2

SeqsUpTo(S, n) == UNION { [1..k -> S] : k \in 0..n }

\* the ways to cut a list of records into f consecutive non-empty files
RECURSIVE Cuts(_, _)
Cuts(recs, f) ==
  IF f = 1 THEN { <<recs>> }
  ELSE UNION { { <<SubSeq(recs, 1, k)>> \o rest : rest \in Cuts(SubSeq(recs, k + 1, Len(recs)), f - 1) }
               : k \in 1..(Len(recs) - (f - 1)) }

\* a pending file is a bare array or, every second one, an object holding it
PendingFile(i, recs) ==
  [name |-> i, file |-> IF i % 2 = 1 THEN ArrayFile(recs) ELSE WrappedFile(recs)]

\* no pending file, one empty file, or the records cut into at most MaxFiles files
InboxChoices ==
  { <<>> } \cup
  UNION { UNION { { [i \in 1..f |-> PendingFile(i, cut[i])] : cut \in Cuts(recs, f) }
                  : f \in { g \in 1..MaxFiles : g = 1 \/ g <= Len(recs) } }
          : recs \in SeqsUpTo(RecordPool, MaxRecs) }

\* the inbox with file i made unreadable
Damaged(files, i) ==
  [files EXCEPT ![i] = [name |-> files[i].name, file |-> UnreadableFile(files[i].file.apps)]]

\* edge inputs: records that raise or lack every key, files that cannot be read
EdgeInboxChoices ==
  LET good == UNION { UNION { { [i \in 1..f |-> PendingFile(i, cut[i])] : cut \in Cuts(recs, f) }
                              : f \in { g \in 1..MaxFiles : g <= Len(recs) } }
                      : recs \in SeqsUpTo(EdgePool, MaxEdgeRecs) }
  IN  good \cup UNION { { Damaged(files, i) : i \in 1..Len(files) } : files \in good }

(***************************************************************************)
(* State of process_country(cc)                                            *)
(***************************************************************************)
VARIABLES
  catalog,      \* catalogs/catalog_<cc>.json
  inbox,        \* data/manus/<cc>/*.json, in name order
  processed,    \* data/manus/<cc>/_processed
  pc,           \* where process_country is: start, file, rec, done
  base,         \* the in-memory catalog
  idx,          \* the four dicts of index_apps
  inbox_files,  \* the files found when the run started
  fileIx,       \* the file of inbox_files the loop is at
  apps,         \* the records of that file
  recIx,        \* the record of apps the loop is at
  changed, added_cnt, merged_cnt,
  summary,      \* the names of the files reported as [ERROR] in this run
  writes,       \* history: the calls of save_json on the catalog in this run
  given,        \* history: the catalog and the inbox the first run was given
  interrupted,  \* history: a run was interrupted between two files
  run,          \* history: the number of this run
  cat0,         \* history: the catalog file this run started from
  snap,         \* history: the catalog file the previous run left
  last,         \* history: what the last record step did
  mergedNames,  \* history: <<id, name>> of every draft merged into a record of
                \* the catalog in memory or of a catalog it was loaded from
  rKind,        \* the reducer applied on its own: merge_one or merge_into
  rDst,         \* the existing record it is given
  rSrc,         \* the draft it is given
  rOut,         \* the record after each application so far
  known_apps,   \* request_to_pending.py: KNOWN_APPS once main has loaded the external file
  rows,         \* the (app_name, country) rows load_rows returned
  pending,      \* the files of pending/requests, by file name without ".json"
  touched_files \* the file each call of generate_or_update returned

vars == <<catalog, inbox, processed, pc, base, idx, inbox_files, fileIx, apps, recIx,
          changed, added_cnt, merged_cnt, summary, writes, given, interrupted,
          run, cat0, snap, last, mergedNames,
          rKind, rDst, rSrc, rOut, known_apps, rows, pending, touched_files>>

processVars == <<catalog, inbox, processed, pc, base, idx, inbox_files, fileIx, apps, recIx,
                 changed, added_cnt, merged_cnt, summary, writes, given, interrupted,
                 run, cat0, snap, last, mergedNames>>
intakeVars == <<known_apps, rows, pending, touched_files>>
reducerVars == <<rKind, rDst, rSrc, rOut, intakeVars>>

NoStep == [op |-> "none"]

IntakeIdle ==
  /\ known_apps = <<>>
  /\ rows = <<>>
  /\ pending = <<>>
  /\ touched_files = <<>>

ReducerIdle ==
  /\ rKind = "none"
  /\ rDst = <<>>
  /\ rSrc = <<>>
  /\ rOut = <<>>
  /\ IntakeIdle

\* the state before the first run, given the catalog file and the inbox
InitWith(cat, files) ==
  /\ ReducerIdle
  /\ catalog = cat
  /\ inbox = files
  /\ given = [catalog |-> cat, inbox |-> files]
  /\ interrupted = FALSE
  /\ summary = <<>>
  /\ writes = 0
  /\ processed = <<>>
  /\ pc = "start"
  /\ base = <<>>
  /\ idx = index_apps(<<>>)
  /\ inbox_files = <<>>
  /\ fileIx = 0
  /\ apps = <<>>
  /\ recIx = 0
  /\ changed = FALSE
  /\ added_cnt = 0
  /\ merged_cnt = 0
  /\ run = 1
  /\ cat0 = MissingFile
  /\ snap = MissingFile
  /\ last = NoStep
  /\ mergedNames = {}

Init == \E cat \in CatalogChoices : \E files \in InboxChoices : InitWith(cat, files)

InitEdge == \E cat \in EdgeCatalogChoices : \E files \in EdgeInboxChoices : InitWith(cat, files)

\* lines 131-141: load and normalize the catalog, index it, list the inbox
Start ==
  /\ pc = "start"
  /\ LET loaded == load_json(catalog)
         normalized == [i \in 1..Len(loaded) |-> normalize_app(loaded[i], CC)]
     IN  /\ base' = normalized
         /\ idx' = index_apps(normalized)
  /\ inbox_files' = inbox
  /\ pc' = IF inbox = <<>> THEN "done" ELSE "file"
  /\ fileIx' = 1
  /\ changed' = FALSE
  /\ added_cnt' = 0
  /\ merged_cnt' = 0
  /\ summary' = <<>>
  /\ writes' = 0
  /\ cat0' = catalog
  /\ last' = NoStep
  /\ UNCHANGED <<catalog, inbox, processed, apps, recIx, run, snap, mergedNames, given, interrupted>>
  /\ UNCHANGED reducerVars

\* lines 143-146: the next pending file is read
OpenFile ==
  /\ pc = "file"
  /\ fileIx <= Len(inbox_files)
  /\ apps' = load_json(inbox_files[fileIx].file)
  /\ recIx' = 1
  /\ pc' = "rec"
  /\ last' = NoStep
  /\ UNCHANGED <<catalog, inbox, processed, base, idx, inbox_files, fileIx,
                 changed, added_cnt, merged_cnt, run, cat0, snap, mergedNames,
                 summary, writes, given, interrupted>>
  /\ UNCHANGED reducerVars

\* lines 148-152: the record matches, and is merged into its match
MergeRecord ==
  /\ pc = "rec"
  /\ recIx <= Len(apps)
  /\ ~Raises(apps[recIx])
  /\ LET na == normalize_app(apps[recIx], CC)
         m == find_match(na, idx)
     IN  /\ m # NoMatch
         /\ base' = [base EXCEPT ![m] = merge_one(base[m], na)]
         /\ last' = [op |-> "merge", na |-> na, at |-> m, before |-> base, idx |-> idx]
         /\ mergedNames' = mergedNames \cup { <<base[m].id, na.name>> }
  /\ merged_cnt' = merged_cnt + 1
  /\ recIx' = recIx + 1
  /\ UNCHANGED <<catalog, inbox, processed, pc, idx, inbox_files, fileIx, apps,
                 changed, added_cnt, run, cat0, snap, summary, writes, given, interrupted>>
  /\ UNCHANGED reducerVars

\* as AddRecord, the index left as it was
AddRecord_no_reindex ==
  /\ pc = "rec"
  /\ recIx <= Len(apps)
  /\ ~Raises(apps[recIx])
  /\ LET na == normalize_app(apps[recIx], CC)
         m == find_match(na, idx)
     IN  /\ m = NoMatch
         /\ base' = Append(base, na)
         /\ last' = [op |-> "add", na |-> na, at |-> Len(base) + 1, before |-> base, idx |-> idx]
  /\ added_cnt' = added_cnt + 1
  /\ recIx' = recIx + 1
  /\ UNCHANGED <<catalog, inbox, processed, pc, idx, inbox_files, fileIx, apps,
                 changed, merged_cnt, run, cat0, snap, mergedNames,
                 summary, writes, given, interrupted>>
  /\ UNCHANGED reducerVars

\* lines 148-149, 153-156: the record matches nothing, and is appended
AddRecord ==
  /\ pc = "rec"
  /\ recIx <= Len(apps)
  /\ ~Raises(apps[recIx])
  /\ LET na == normalize_app(apps[recIx], CC)
         m == find_match(na, idx)
     IN  /\ m = NoMatch
         /\ base' = Append(base, na)
         /\ idx' = index_apps(Append(base, na))
         /\ last' = [op |-> "add", na |-> na, at |-> Len(base) + 1, before |-> base, idx |-> idx]
  /\ added_cnt' = added_cnt + 1
  /\ recIx' = recIx + 1
  /\ UNCHANGED <<catalog, inbox, processed, pc, inbox_files, fileIx, apps,
                 changed, merged_cnt, run, cat0, snap, mergedNames,
                 summary, writes, given, interrupted>>
  /\ UNCHANGED reducerVars

\* lines 148, 160-161: normalize_app raises on the record; the error is put in
\* the summary, the rest of the file is skipped and the file stays in the inbox
FailRecord ==
  /\ pc = "rec"
  /\ recIx <= Len(apps)
  /\ Raises(apps[recIx])
  /\ summary' = Append(summary, inbox_files[fileIx].name)
  /\ fileIx' = fileIx + 1
  /\ pc' = "file"
  /\ last' = NoStep
  /\ UNCHANGED <<catalog, inbox, processed, base, idx, inbox_files, apps, recIx,
                 changed, added_cnt, merged_cnt, run, cat0, snap, mergedNames,
                 writes, given, interrupted>>
  /\ UNCHANGED reducerVars

\* lines 157-159: every record of the file is folded in; the file is archived
ArchiveFile ==
  /\ pc = "rec"
  /\ recIx > Len(apps)
  /\ inbox' = SelectSeq(inbox, LAMBDA f : f.name # inbox_files[fileIx].name)
  /\ processed' = Append(processed, inbox_files[fileIx])
  /\ changed' = TRUE
  /\ fileIx' = fileIx + 1
  /\ pc' = "file"
  /\ last' = NoStep
  /\ UNCHANGED <<catalog, base, idx, inbox_files, apps, recIx,
                 added_cnt, merged_cnt, run, cat0, snap, mergedNames,
                 summary, writes, given, interrupted>>
  /\ UNCHANGED reducerVars

\* lines 163-171: after the last file the catalog is sorted and saved
Persist ==
  /\ pc = "file"
  /\ fileIx > Len(inbox_files)
  /\ IF changed
     THEN /\ base' = sort_by_id(base)
          /\ catalog' = save_json(sort_by_id(base))
          /\ writes' = writes + 1
     ELSE UNCHANGED <<base, catalog, writes>>
  /\ pc' = "done"
  /\ last' = NoStep
  /\ UNCHANGED <<inbox, processed, idx, inbox_files, fileIx, apps, recIx,
                 changed, added_cnt, merged_cnt, run, cat0, snap, mergedNames,
                 summary, given, interrupted>>
  /\ UNCHANGED reducerVars

\* the archived files are put back into the inbox and the script is run again
RunAgain ==
  /\ pc = "done"
  /\ run < MaxRuns
  /\ ~interrupted
  /\ processed # <<>>
  /\ LET all == inbox \o processed
         names == { all[i].name : i \in 1..Len(all) }
     IN  inbox' = [i \in 1..Len(all) |-> CHOOSE f \in { all[j] : j \in 1..Len(all) } :
                      Cardinality({ n \in names : n < f.name }) = i - 1]
  /\ processed' = <<>>
  /\ pc' = "start"
  /\ run' = run + 1
  /\ snap' = catalog
  /\ last' = NoStep
  /\ UNCHANGED <<catalog, base, idx, inbox_files, fileIx, apps, recIx,
                 changed, added_cnt, merged_cnt, cat0, mergedNames,
                 summary, writes, given, interrupted>>
  /\ UNCHANGED reducerVars

\* the first run is stopped between two files, after one was archived and
\* before the next is opened, and the script is started again: what the
\* process held in memory is gone, the files are as they were left
Interrupt ==
  /\ pc = "file"
  /\ run = 1
  /\ ~interrupted
  /\ 1 < fileIx /\ fileIx <= Len(inbox_files)
  /\ summary = <<>>
  /\ interrupted' = TRUE
  /\ pc' = "start"
  /\ last' = NoStep
  /\ mergedNames' = {}
  /\ UNCHANGED <<catalog, inbox, processed, base, idx, inbox_files, fileIx, apps, recIx,
                 changed, added_cnt, merged_cnt, run, cat0, snap,
                 summary, writes, given>>
  /\ UNCHANGED reducerVars

Next ==
  \/ Start \/ OpenFile \/ MergeRecord \/ AddRecord \/ FailRecord \/ ArchiveFile \/ Persist
  \/ RunAgain \/ Interrupt

Spec == Init /\ [][Next]_vars

\* the same runs, over the edge inputs
SpecEdge == InitEdge /\ [][Next]_vars

\* the same runs, over drafts that meet what an earlier draft of the run left
\* in a record: DraftIdA is merged into RecA by its id and leaves its name
\* "Blocks" and its host "yt.com" there
DraftBlocks == [name |-> "blocks", symbol |-> "cube"]
DraftHostLate == [id |-> "late", name |-> "Later", webHosts |-> PyList(<<"YT.com">>)]
StalePool == { DraftIdA, DraftBlocks, DraftHostLate, DraftNew, NotARecord }

StaleInboxChoices ==
  UNION { UNION { { [i \in 1..f |-> PendingFile(i, cut[i])] : cut \in Cuts(recs, f) }
                  : f \in { g \in 1..MaxFiles : g <= Len(recs) } }
          : recs \in SeqsUpTo(StalePool, MaxRecs) }

InitStale ==
  \E cat \in { ArrayFile(<<RecA>>), ArrayFile(<<RecA, RecB>>) } :
    \E files \in StaleInboxChoices : InitWith(cat, files)

SpecStale == InitStale /\ [][Next]_vars

(***************************************************************************)
(* scripts/merge_catalog_jp.py: the merge of the one region "jp".  Its     *)
(* helpers are those of merge_catalogs.py but for normalize_app (another   *)
(* default country) and load_json (it catches nothing).                    *)
(***************************************************************************)
\* line 69: "Japan (日本)", the name in kanji written here in Latin letters
DefaultCountryJp == "Japan (Nihon)"

\* lines 46-75
normalize_app_jp(app) ==
  LET a == normalize_app(app, CC)
  IN  IF Get(Get(app, "source", <<>>), "country", "") = ""
      THEN [a EXCEPT !.source.country = DefaultCountryJp]
      ELSE a

\* lines 77-80: json.load raises on a file that cannot be parsed
LoadRaisesJp(f) == f.kind = "unreadable"
load_json_jp(f) == IF f.kind = "missing" THEN <<>> ELSE f.apps

\* lines 137-148: load and normalize the catalog, index it, list the inbox
StartJp ==
  /\ pc = "start"
  /\ IF LoadRaisesJp(catalog)
     THEN \* line 139 raises and nothing catches it: the run ends there
          /\ pc' = "crashed"
          /\ UNCHANGED <<base, idx, inbox_files, fileIx, changed, added_cnt, merged_cnt,
                         summary, writes, cat0>>
     ELSE LET loaded == load_json_jp(catalog)
              normalized == [i \in 1..Len(loaded) |-> normalize_app_jp(loaded[i])]
          IN  /\ base' = normalized
              /\ idx' = index_apps(normalized)
              /\ inbox_files' = inbox
              /\ pc' = IF inbox = <<>> THEN "done" ELSE "file"
              /\ fileIx' = 1
              /\ changed' = FALSE
              /\ added_cnt' = 0
              /\ merged_cnt' = 0
              /\ summary' = <<>>
              /\ writes' = 0
              /\ cat0' = catalog
  /\ last' = NoStep
  /\ UNCHANGED <<catalog, inbox, processed, apps, recIx, run, snap, mergedNames, given, interrupted>>
  /\ UNCHANGED reducerVars

\* lines 150-154: the next pending file is read
OpenFileJp ==
  /\ pc = "file"
  /\ fileIx <= Len(inbox_files)
  /\ ~LoadRaisesJp(inbox_files[fileIx].file)
  /\ apps' = load_json_jp(inbox_files[fileIx].file)
  /\ recIx' = 1
  /\ pc' = "rec"
  /\ last' = NoStep
  /\ UNCHANGED <<catalog, inbox, processed, base, idx, inbox_files, fileIx,
                 changed, added_cnt, merged_cnt, run, cat0, snap, mergedNames,
                 summary, writes, given, interrupted>>
  /\ UNCHANGED reducerVars

\* lines 152, 169-170: the file cannot be parsed; it is reported and stays
FailOpenJp ==
  /\ pc = "file"
  /\ fileIx <= Len(inbox_files)
  /\ LoadRaisesJp(inbox_files[fileIx].file)
  /\ summary' = Append(summary, inbox_files[fileIx].name)
  /\ fileIx' = fileIx + 1
  /\ last' = NoStep
  /\ UNCHANGED <<catalog, inbox, processed, pc, base, idx, inbox_files, apps, recIx,
                 changed, added_cnt, merged_cnt, run, cat0, snap, mergedNames,
                 writes, given, interrupted>>
  /\ UNCHANGED reducerVars

\* lines 156-160: the record matches, and is merged into its match
MergeRecordJp ==
  /\ pc = "rec"
  /\ recIx <= Len(apps)
  /\ ~Raises(apps[recIx])
  /\ \E na \in { normalize_app_jp(apps[recIx]) } : \E m \in { find_match(na, idx) } :
         /\ m # NoMatch
         /\ base' = [base EXCEPT ![m] = merge_one(base[m], na)]
         /\ last' = [op |-> "merge", na |-> na, at |-> m, before |-> base, idx |-> idx]
         /\ mergedNames' = mergedNames \cup { <<base[m].id, na.name>> }
  /\ merged_cnt' = merged_cnt + 1
  /\ recIx' = recIx + 1
  /\ UNCHANGED <<catalog, inbox, processed, pc, idx, inbox_files, fileIx, apps,
                 changed, added_cnt, run, cat0, snap, summary, writes, given, interrupted>>
  /\ UNCHANGED reducerVars

\* lines 156-157, 161-166: the record matches nothing; it is appended,
\* normalized once more, and the index is rebuilt
AddRecordJp ==
  /\ pc = "rec"
  /\ recIx <= Len(apps)
  /\ ~Raises(apps[recIx])
  /\ \E na \in { normalize_app_jp(apps[recIx]) } :
      \E appended \in { Append(base, normalize_app_jp(na)) } :
         /\ find_match(na, idx) = NoMatch
         /\ base' = appended
         /\ idx' = index_apps(appended)
         /\ last' = [op |-> "add", na |-> na, at |-> Len(base) + 1, before |-> base, idx |-> idx]
  /\ added_cnt' = added_cnt + 1
  /\ recIx' = recIx + 1
  /\ UNCHANGED <<catalog, inbox, processed, pc, inbox_files, fileIx, apps,
                 changed, merged_cnt, run, cat0, snap, mergedNames,
                 summary, writes, given, interrupted>>
  /\ UNCHANGED reducerVars

\* lines 156, 169-170: normalize_app raises on the record, as in merge_catalogs.py
FailRecordJp == FailRecord

\* lines 167-168: every record of the file is folded in; the file is archived
ArchiveFileJp ==
  /\ pc = "rec"
  /\ recIx > Len(apps)
  /\ inbox' = SelectSeq(inbox, LAMBDA f : f.name # inbox_files[fileIx].name)
  /\ processed' = Append(processed, inbox_files[fileIx])
  /\ fileIx' = fileIx + 1
  /\ pc' = "file"
  /\ last' = NoStep
  /\ UNCHANGED <<catalog, base, idx, inbox_files, apps, recIx, changed,
                 added_cnt, merged_cnt, run, cat0, snap, mergedNames,
                 summary, writes, given, interrupted>>
  /\ UNCHANGED reducerVars

\* lines 172-178: after the last file the catalog is sorted and saved, always
PersistJp ==
  /\ pc = "file"
  /\ fileIx > Len(inbox_files)
  /\ base' = sort_by_id(base)
  /\ catalog' = save_json(sort_by_id(base))
  /\ writes' = writes + 1
  /\ changed' = TRUE
  /\ pc' = "done"
  /\ last' = NoStep
  /\ UNCHANGED <<inbox, processed, idx, inbox_files, fileIx, apps, recIx,
                 added_cnt, merged_cnt, run, cat0, snap, mergedNames,
                 summary, given, interrupted>>
  /\ UNCHANGED reducerVars

process ==
  \/ StartJp \/ OpenFileJp \/ FailOpenJp \/ MergeRecordJp \/ AddRecordJp \/ FailRecordJp
  \/ ArchiveFileJp \/ PersistJp

InitJp ==
  \E cat \in CatalogChoices : \E files \in EdgeInboxChoices \cup { <<>> } : InitWith(cat, files)

SpecJp == InitJp /\ [][process]_vars

(***************************************************************************)
(* A reducer applied on its own: merge_one(dst, src) or                    *)
(* merge_into(existing, incoming), again and again with the same draft.    *)
(***************************************************************************)
ProcessIdle ==
  /\ catalog = MissingFile
  /\ inbox = <<>>
  /\ processed = <<>>
  /\ pc = "idle"
  /\ base = <<>>
  /\ idx = index_apps(<<>>)
  /\ inbox_files = <<>>
  /\ fileIx = 0
  /\ apps = <<>>
  /\ recIx = 0
  /\ changed = FALSE
  /\ added_cnt = 0
  /\ merged_cnt = 0
  /\ summary = <<>>
  /\ writes = 0
  /\ given = [catalog |-> MissingFile, inbox |-> <<>>]
  /\ interrupted = FALSE
  /\ run = 1
  /\ cat0 = MissingFile
  /\ snap = MissingFile
  /\ last = NoStep
  /\ mergedNames = {}

ReducerInit ==
  /\ ProcessIdle
  /\ IntakeIdle
  /\ rOut = <<>>
  /\ \/ rKind = "merge_one" /\ rDst \in NormalizedPool /\ rSrc \in NormalizedPool
     \/ rKind = "merge_into" /\ rDst \in PendingRequests /\ rSrc \in IntakeDrafts

\* the record the next application is given
Current == IF rOut = <<>> THEN rDst ELSE rOut[Len(rOut)]

ApplyMergeOne ==
  /\ rKind = "merge_one"
  /\ Len(rOut) < MaxApply
  /\ rOut' = Append(rOut, merge_one(Current, rSrc))
  /\ UNCHANGED <<rKind, rDst, rSrc, intakeVars>>
  /\ UNCHANGED processVars

ApplyMergeInto ==
  /\ rKind = "merge_into"
  /\ Len(rOut) < MaxApply
  /\ rOut' = Append(rOut, merge_into(Current, rSrc))
  /\ UNCHANGED <<rKind, rDst, rSrc, intakeVars>>
  /\ UNCHANGED processVars

ReducerNext == ApplyMergeOne \/ ApplyMergeInto

SpecReducer == ReducerInit /\ [][ReducerNext]_vars

(***************************************************************************)
(* request_to_pending.py: the stable id of a requested name.  The known    *)
(* apps are a dict, modelled as the sequence of its entries in insertion   *)
(* order (the order known_apps.items() yields).  The names and aliases of  *)
(* the model are ASCII, on which unicodedata.normalize("NFKC", s) changes  *)
(* nothing.                                                                *)
(***************************************************************************)
Alnum == UpperSet \cup LowerSet \cup DigitSet

\* lines 116-120: lower case, then whitespace and every non-word character removed
norm_key(s) == FilterChars(Lower(s), WordChars)

RECURSIVE DropWhileNot(_, _)
DropWhileNot(s, keep) ==
  IF s # "" /\ Char(s, 1) \notin keep THEN DropWhileNot(SubSeq(s, 2, Len(s)), keep) ELSE s

\* re.sub(r"[^A-Za-z0-9]+", "-", s): every maximal run of other characters becomes one "-"
RECURSIVE HyphenateRuns(_)
HyphenateRuns(s) ==
  IF s = "" THEN ""
  ELSE IF Char(s, 1) \notin Alnum
       THEN "-" \o HyphenateRuns(DropWhileNot(s, Alnum))
       ELSE Char(s, 1) \o HyphenateRuns(SubSeq(s, 2, Len(s)))

\* re.sub(r"-{2,}", "-", s)
RECURSIVE CollapseHyphens(_)
CollapseHyphens(s) ==
  IF Len(s) < 2 THEN s
  ELSE IF Char(s, 1) = "-" /\ Char(s, 2) = "-" THEN CollapseHyphens(SubSeq(s, 2, Len(s)))
       ELSE Char(s, 1) \o CollapseHyphens(SubSeq(s, 2, Len(s)))

slugify_ascii(s) ==
  Lower(RStripChars(LStripChars(CollapseHyphens(HyphenateRuns(Strip(s))), {"-"}), {"-"}))

\* hashlib.md5(name.encode("utf-8")).hexdigest()[:12] of the names the model uses
Md5Hex12 ==
  [n \in {"!!!", "???", "+", "Zed", "A b", "zed", "MC", "M.C.", "Minecraft", "McDonald's", "Suika Game"} |->
     CASE n = "!!!"        -> "6dd075556eff"
       [] n = "???"        -> "0d1b08c34858"
       [] n = "+"          -> "26b17225b626"
       [] n = "Zed"        -> "039c82509dd1"
       [] n = "A b"        -> "bc79052a3f15"
       [] n = "zed"        -> "89e3eb66497b"
       [] n = "MC"         -> "92a54b358b4c"
       [] n = "M.C."       -> "d4a9226881f7"
       [] n = "Minecraft"  -> "e3416675e3a2"
       [] n = "McDonald's" -> "700dd1ec7573"
       [] n = "Suika Game" -> "d7bd2d4e0821"]

\* lines 225-229: the entries in dict order, the first one holding an alias of the same key
MatchingEntries(app_name, known) ==
  { i \in 1..Len(known) :
      \E j \in 1..Len(known[i].aliases) : norm_key(known[i].aliases[j]) = norm_key(app_name) }

FirstMatch(app_name, known) ==
  LET hits == MatchingEntries(app_name, known)
  IN  IF hits = {} THEN 0 ELSE CHOOSE i \in hits : \A k \in hits : i <= k

decide_stable_id(app_name, known) ==
  LET hit == FirstMatch(app_name, known)
  IN  IF hit # 0 THEN known[hit].id
      ELSE IF slugify_ascii(app_name) # "" THEN slugify_ascii(app_name)
      ELSE "app-" \o Md5Hex12[app_name]

\* an entry of the known apps; the aliases in other scripts than Latin are left out
KnownApp(id, aliases, symbol, links, hosts, categories) ==
  [id |-> id, aliases |-> aliases, symbol |-> symbol, schemes |-> <<>>,
   universalLinks |-> links, webHosts |-> hosts, categories |-> categories]

KNOWN_APPS ==
  << KnownApp("minecraft", <<"Minecraft", "MC">>, "gamecontroller.fill",
              <<"https://www.minecraft.net/">>, <<"minecraft.net">>, <<"game">>),
     KnownApp("discord", <<"Discord">>, "bubble.left.and.bubble.right.fill",
              <<"https://discord.com/">>, <<"discord.com">>, <<"social">>),
     KnownApp("youtube", <<"YouTube">>, "play.rectangle.fill",
              <<"https://www.youtube.com/">>, <<"youtube.com", "youtu.be">>, <<"video">>),
     KnownApp("instagram", <<"Instagram", "IG">>, "camera.fill",
              <<"https://www.instagram.com/">>, <<"instagram.com">>, <<"social">>),
     KnownApp("tiktok", <<"TikTok">>, "music.note",
              <<"https://www.tiktok.com/">>, <<"tiktok.com">>, <<"video">>),
     KnownApp("suika-game", <<"Suika", "Suika Game", "Watermelon Game">>, "gamecontroller.fill",
              <<>>, <<>>, <<"game">>) >>

(***************************************************************************)
(* Id synthesis applied on its own, run after run, to two names: by        *)
(* normalize_app of merge_catalogs.py on a record holding only the name,   *)
(* and by decide_stable_id of request_to_pending.py.                       *)
(***************************************************************************)
SynthNames == {"!!!", "???", "+", "Zed", "A b", "zed"}

SynthId(kind, n) ==
  IF kind = "normalize_app" THEN normalize_app([name |-> n], CC).id
  ELSE decide_stable_id(n, KNOWN_APPS)

SynthInit ==
  /\ ProcessIdle
  /\ IntakeIdle
  /\ rOut = <<>>
  /\ rKind \in {"normalize_app", "decide_stable_id"}
  /\ rDst \in SynthNames
  /\ rSrc \in SynthNames

SynthNormalize ==
  /\ rKind = "normalize_app"
  /\ Len(rOut) < MaxApply
  /\ rOut' = Append(rOut, <<SynthId("normalize_app", rDst), SynthId("normalize_app", rSrc)>>)
  /\ UNCHANGED <<rKind, rDst, rSrc, intakeVars>>
  /\ UNCHANGED processVars

SynthStable ==
  /\ rKind = "decide_stable_id"
  /\ Len(rOut) < MaxApply
  /\ rOut' = Append(rOut, <<SynthId("decide_stable_id", rDst), SynthId("decide_stable_id", rSrc)>>)
  /\ UNCHANGED <<rKind, rDst, rSrc, intakeVars>>
  /\ UNCHANGED processVars

SynthNext == SynthNormalize \/ SynthStable

SpecSynth == SynthInit /\ [][SynthNext]_vars

(***************************************************************************)
(* request_to_pending.py: main over the rows of the inbox CSV.  Each row   *)
(* is given to generate_or_update, which writes one file of                *)
(* pending/requests.  A file of that directory holds a JSON object, or     *)
(* text json.loads raises on (read as {}, lines 352-355).                  *)
(***************************************************************************)
JsonFile(obj) == [text |-> "json", obj |-> obj]
DamagedFile == [text |-> "damaged"]
read_pending(f) == IF f.text = "json" THEN f.obj ELSE <<>>

\* host_from_url of request_to_pending.py, over a list of links: the
\* netlocs that are not empty
RECURSIVE link_hosts(_)
link_hosts(links) ==
  IF links = <<>> THEN <<>>
  ELSE (IF urlparse_netloc(Head(links)) # "" THEN <<urlparse_netloc(Head(links))>> ELSE <<>>)
       \o link_hosts(Tail(links))

suggest_from_known(canonical_id, app_name, known) ==
  LET hit == { i \in 1..Len(known) : known[i].id = canonical_id }
  IN  IF hit # {}
      THEN LET info == known[CHOOSE i \in hit : TRUE]
           IN  [id |-> canonical_id,
                name |-> IF info.aliases # <<>> THEN info.aliases[1] ELSE app_name,
                symbol |-> info.symbol,
                schemes |-> PyList(info.schemes),
                universalLinks |-> PyList(info.universalLinks),
                webHosts |-> PyList(to_unique_list(info.webHosts \o link_hosts(info.universalLinks))),
                aliases |-> PyList(to_unique_list(info.aliases \o <<app_name>>)),
                categories |-> PyList(info.categories),
                source |-> [country |-> Global, via |-> ViaIntake]]
      ELSE [id |-> canonical_id, name |-> app_name, symbol |-> DefaultSymbol,
            schemes |-> PyList(<<>>), universalLinks |-> PyList(<<>>), webHosts |-> PyList(<<>>),
            aliases |-> PyList(<<app_name>>), categories |-> PyList(<<>>),
            source |-> [country |-> Global, via |-> ViaIntake]]

\* the content generate_or_update writes to <canonical_id>.json
generate_or_update(json_dir, app_name, country, known) ==
  LET canonical_id == decide_stable_id(app_name, known)
      suggested == suggest_from_known(canonical_id, app_name, known)
      draft == [suggested EXCEPT !.aliases = PyList(to_unique_list(suggested.aliases.list \o <<app_name>>)),
                                 !.source = [country |-> country, via |-> ViaIntake]]
      merged == IF canonical_id \in DOMAIN json_dir
                THEN merge_into(read_pending(json_dir[canonical_id]), draft)
                ELSE draft
  IN  [merged EXCEPT !.webHosts =
         PyList(to_unique_list(merged.webHosts.list \o link_hosts(merged.universalLinks.list)))]

\* main, lines 380-383: KNOWN_APPS[k] = v for every entry of the external
\* file; an id already known keeps its place in the dict, a new one is added
\* at the end
RECURSIVE merge_external(_, _)
merge_external(known, external) ==
  IF external = <<>> THEN known
  ELSE LET e == Head(external)
           at == { i \in 1..Len(known) : known[i].id = e.id }
       IN  merge_external(IF at = {} THEN Append(known, e)
                          ELSE [i \in 1..Len(known) |-> IF i \in at THEN e ELSE known[i]],
                          Tail(external))

\* data/known_apps.json as load_known_apps_from_json returns it: missing, or
\* one entry that is new, that shares the alias "MC" with a builtin entry, or
\* that replaces a builtin entry
ExternalChoices ==
  { <<>>,
    << KnownApp("zed", <<"Zed", "Z.E.D.">>, DefaultSymbol, <<"https://zed.dev/x">>, <<>>, <<>>) >>,
    << KnownApp("mcdonalds", <<"McDonald's", "MC">>, DefaultSymbol, <<>>, <<"mcdonalds.com">>, <<"food">>) >>,
    << KnownApp("minecraft", <<"Minecraft", "M.C.">>, "cube", <<>>, <<"minecraft.net">>, <<"game">>) >> }

IntakeRows ==
  { <<n, c>> : n \in {"MC", "M.C.", "Minecraft", "McDonald's", "Zed", "!!!"}, c \in {"JP", Global} }

MaxRows == 2

\* pending/requests before the run: empty, or holding a file of an earlier
\* run edited by hand, or a file that cannot be parsed
PendingChoices ==
  { <<>>,
    [k \in {"minecraft"} |-> JsonFile([id |-> "minecraft", name |-> "Minecraft!",
                                       aliases |-> PyList(<<"Mine">>),
                                       source |-> [country |-> "KR", via |-> ViaIntake]])],
    [k \in {"zed"} |-> DamagedFile] }

IntakeInit ==
  /\ ProcessIdle
  /\ rKind = "none" /\ rDst = <<>> /\ rSrc = <<>> /\ rOut = <<>>
  /\ known_apps \in { merge_external(KNOWN_APPS, ext) : ext \in ExternalChoices }
  /\ rows \in [1..MaxRows -> IntakeRows]
  /\ pending \in PendingChoices
  /\ touched_files = <<>>

\* one turn of the loop of main, lines 399-402
GenerateOrUpdate ==
  /\ Len(touched_files) < Len(rows)
  /\ \E row \in { rows[Len(touched_files) + 1] } :
     \E p \in { decide_stable_id(row[1], known_apps) } :
     \E content \in { generate_or_update(pending, row[1], row[2], known_apps) } :
       /\ pending' = [k \in DOMAIN pending \cup {p} |-> IF k = p THEN JsonFile(content) ELSE pending[k]]
       /\ touched_files' = Append(touched_files, p)
  /\ UNCHANGED <<known_apps, rows>>
  /\ UNCHANGED <<rKind, rDst, rSrc, rOut>>
  /\ UNCHANGED processVars

IntakeNext == GenerateOrUpdate

SpecIntake == IntakeInit /\ [][IntakeNext]_vars

\* the same loop over more rows of fewer names, with the builtin known apps:
\* several requests of one application from several countries
HistoryRows == { <<n, c>> : n \in {"MC", "Minecraft", "Zed"}, c \in {"JP", "US", Global} }
MaxCalls == 3

\* pending/requests before the run: as PendingChoices, or a file that holds a
\* history already
HistoryPendingChoices ==
  PendingChoices \cup
  { [k \in {"minecraft"} |-> JsonFile([id |-> "minecraft", name |-> "Minecraft",
                                       aliases |-> PyList(<<"Minecraft">>),
                                       source |-> [country |-> Global, via |-> ViaIntake,
                                                   country_list |-> <<"KR">>]])] }

HistoryInit ==
  /\ ProcessIdle
  /\ rKind = "none" /\ rDst = <<>> /\ rSrc = <<>> /\ rOut = <<>>
  /\ known_apps = KNOWN_APPS
  /\ rows \in [1..MaxCalls -> HistoryRows]
  /\ pending \in HistoryPendingChoices
  /\ touched_files = <<>>

SpecHistory == HistoryInit /\ [][IntakeNext]_vars

(***************************************************************************)
(* host_from_url applied on its own to a URL.  merge_catalogs.py lines     *)
(* 37-42 and merge_catalog_jp.py lines 39-44 are the same function.        *)
(***************************************************************************)
\* a scheme or none, a host, and what may follow the host
UrlPool ==
  { s \o h \o t : s \in {"https://", "http://", "//", ""},
                  h \in {"www.a.com", "wiki.org", "www.wiki.org", "WWW.X.io", ".x.io", "www.www.a.com",
                         "w.org", "a.com", "www.w3.org", "ww.a.com", ""},
                  t \in {"", "/x", "?q", "#f"} }

HostInit ==
  /\ ProcessIdle
  /\ IntakeIdle
  /\ rKind = "host_from_url"
  /\ rDst \in UrlPool
  /\ rSrc = <<>>
  /\ rOut = <<>>

ApplyHost ==
  /\ rKind = "host_from_url"
  /\ rOut = <<>>
  /\ rOut' = <<host_from_url(rDst)>>
  /\ UNCHANGED <<rKind, rDst, rSrc, intakeVars>>
  /\ UNCHANGED processVars

HostNext == ApplyHost

SpecHost == HostInit /\ [][HostNext]_vars

(***************************************************************************)
(* The claims                                                              *)
(***************************************************************************)
Elems(seq) == { seq[i] : i \in 1..Len(seq) }
NoDup(seq) == \A i, j \in 1..Len(seq) : i # j => seq[i] # seq[j]
ListOf(r, k) == ensure_list(Get(r, k, PyList(<<>>)))
ListKeys == Elems(ListFields)

\* C1: running process_country over one pending file and then again over the
\* same file, restored to the inbox, leaves the persisted catalog as the first
\* run left it.
C1_FileIdempotent ==
  (pc = "done" /\ run >= 2 /\ Len(inbox_files) = 1) => catalog = snap

\* the records each signal of the draft of the last record step hits
IdHits == { p \in 1..Len(last.before) : last.before[p].id = last.na.id }
NameHits ==
  { p \in 1..Len(last.before) :
      last.na.name # "" /\ Lower(last.before[p].name) = Lower(last.na.name) }
AliasHits ==
  { last.idx.by_alias[k][1] :
      k \in { Lower(a) : a \in Elems(last.na.aliases.list) } \cap DOMAIN last.idx.by_alias }
HostHits ==
  { last.idx.by_host[k][1] :
      k \in { Lower(h) : h \in Elems(last.na.webHosts.list) } \cap DOMAIN last.idx.by_host }

FirstHits ==
  IF IdHits # {} THEN IdHits
  ELSE IF NameHits # {} THEN NameHits
  ELSE IF AliasHits # {} THEN AliasHits
  ELSE HostHits

\* C2: a draft is resolved by id, then lowercase name, then lowercase alias,
\* then lowercase host: it is merged into a record of the first of these
\* signals that hits (the record that has the draft's id, whatever its name,
\* aliases and hosts hit), every other record is left as it was and no record
\* is appended.
C2_Priority ==
  (last.op \in {"merge", "add"} /\ FirstHits # {}) =>
     /\ last.op = "merge"
     /\ last.at \in FirstHits
     /\ Len(base) = Len(last.before)
     /\ \A q \in 1..Len(base) : q # last.at => base[q] = last.before[q]
     /\ Elems(last.na.aliases.list) \subseteq Elems(base[last.at].aliases.list)

\* the draft's id hits one record while an alias or a host of it hits another
C2_Witness ==
  /\ last.op = "merge"
  /\ IdHits # {}
  /\ (AliasHits \cap HostHits) \ IdHits # {}
  /\ base[last.at].id = last.na.id

\* the host the specification derives from a universal link: the network
\* location, lower-cased, less one leading "www."
ClaimedHost(u) ==
  LET h == Lower(urlparse_netloc(u))
  IN  IF StartsWith(h, "www.") THEN SubSeq(h, 5, Len(h)) ELSE h

\* C3: every record's webHosts holds the host of each of its universalLinks.
C3_HostDerivation ==
  \A p \in 1..Len(base) : \A u \in Elems(base[p].universalLinks.list) :
     ClaimedHost(u) # "" => ClaimedHost(u) \in Elems(base[p].webHosts.list)

\* C4: after merge_one each list field is free of duplicates and is the
\* record's entries in their order followed by the draft's entries that the
\* record did not hold, and nothing else.
C4_UnionCorrect ==
  last.op = "merge" =>
     \A k \in ListKeys :
        LET e == last.before[last.at][k].list
            d == last.na[k].list
            o == base[last.at][k].list
        IN  /\ o = e \o SelectSeq(d, LAMBDA x : ~Contains(e, x))
            /\ NoDup(o)

\* a merge in which the draft brought an entry the record held and one it did not
C4_Witness ==
  /\ last.op = "merge"
  /\ \E k \in ListKeys :
        LET e == last.before[last.at][k].list
            d == last.na[k].list
        IN  /\ e # <<>>
            /\ Elems(d) \cap Elems(e) # {}
            /\ Elems(d) \ Elems(e) # {}
            /\ Len(base[last.at][k].list) = Len(e) + Cardinality(Elems(d) \ Elems(e))

\* C5: applying a reducer (merge_one, merge_into) again with the same draft
\* gives the record the first application gave, its source included.
C5_ReducerIdempotent ==
  \A i \in 2..Len(rOut) : rOut[i] = rOut[1]

\* the draft was applied twice, and the first application changed the record
C5_Witness ==
  /\ Len(rOut) >= 2
  /\ rOut[1] # rDst
  /\ rOut[1].source # Get(rDst, "source", <<>>)

\* the record an application of the reducer was given, and the one it gave
Given(i) == IF i = 1 THEN rDst ELSE rOut[i - 1]

\* C6 as stated: on a merge, name and symbol keep their value when it is not
\* empty and take the draft's value when it is empty (an existing name that is
\* the empty string included).
C6_FilledWhenEmpty ==
  \A i \in 1..Len(rOut) :
     /\ rOut[i].name = (IF Get(Given(i), "name", "") # "" THEN Given(i).name ELSE Get(rSrc, "name", ""))
     /\ rOut[i].symbol = (IF Get(Given(i), "symbol", "") # "" THEN Given(i).symbol ELSE Get(rSrc, "symbol", ""))

\* C6 as amended: name and symbol keep their value when it is not empty.
\* merge_one never changes the name (an empty name stays empty) and gives an
\* empty symbol the draft's symbol, or the default symbol when that is empty
\* too.  merge_into takes the draft's name and symbol only when the existing
\* record lacks the key; an existing empty string is kept.
C6_KeptWhenPresent ==
  \A i \in 1..Len(rOut) :
     IF rKind = "merge_one"
     THEN /\ rOut[i].name = Given(i).name
          /\ rOut[i].symbol = (IF Given(i).symbol # "" THEN Given(i).symbol
                               ELSE IF rSrc.symbol # "" THEN rSrc.symbol ELSE DefaultSymbol)
     ELSE /\ rOut[i].name = (IF "name" \in DOMAIN Given(i) THEN Given(i).name ELSE Get(rSrc, "name", ""))
          /\ rOut[i].symbol = (IF "symbol" \in DOMAIN Given(i) THEN Given(i).symbol
                               ELSE Get(rSrc, "symbol", DefaultSymbol))

\* merge_one was given a record without name and symbol and a draft with both
C6_Witness ==
  /\ rKind = "merge_one"
  /\ Len(rOut) >= 1
  /\ rDst.name = "" /\ rSrc.name # ""
  /\ rDst.symbol = "" /\ rSrc.symbol # ""
  /\ rOut[1].symbol = rSrc.symbol

\* the regions and the channels a source dict holds
RegionsHeld(src) ==
  ({ Get(src, "country", "") } \cup Elems(Get(src, "country_list", <<>>))) \ {"", Global}
ViasHeld(src) == { Get(src, "via", "") } \ {""}

UniqueIds(records) ==
  /\ \A i \in 1..Len(records) : records[i].id # ""
  /\ \A i, j \in 1..Len(records) : i # j => records[i].id # records[j].id

Loaded(f) == [i \in 1..Len(load_json(f)) |-> normalize_app(load_json(f)[i], CC)]

\* C8: when the catalog as loaded has non-empty, pairwise distinct ids, so have
\* the in-memory catalog and the persisted catalog after any records merged or
\* appended.
C8_IdsUnique ==
  UniqueIds(Loaded(cat0)) => UniqueIds(base) /\ UniqueIds(load_json(catalog))

\* a run that appended a record and merged a draft into a record has persisted
C8_Witness ==
  /\ pc = "done"
  /\ changed
  /\ added_cnt >= 1 /\ merged_cnt >= 1
  /\ Len(load_json(catalog)) >= 3

\* C9: every record of the catalog file a run started from is in the catalog
\* the run leaves, under the same id, and each of its list fields holds what it
\* held, whatever pending files were processed.
C9_NeverDeleted ==
  pc = "done" =>
     \A r \in Elems(Records(cat0)) : \E n \in Elems(Records(catalog)) :
        /\ n.id = r.id
        /\ \A k \in ListKeys : Elems(ListOf(r, k)) \subseteq Elems(ListOf(n, k))

HoldsNames(r) ==
  /\ Get(r, "name", "") # "" => r.name \in Elems(ListOf(r, "aliases"))
  /\ \A mn \in mergedNames :
       (mn[1] = r.id /\ mn[2] # "") => mn[2] \in Elems(ListOf(r, "aliases"))

\* C10: in the catalog in memory at every step, and in the catalog a run has
\* written, each record's aliases hold the record's name and the name of
\* every draft merged into the record (a record or a draft without a name
\* has no name to hold).
C10_AliasesHoldNames ==
  /\ \A r \in Elems(base) : HoldsNames(r)
  /\ (pc = "done" /\ writes >= 1) => \A r \in Elems(load_json(catalog)) : HoldsNames(r)

\* a draft of another name was merged into a record
C10_Witness ==
  \E p \in 1..Len(base) : \E mn \in mergedNames :
     /\ mn[1] = base[p].id
     /\ mn[2] # ""
     /\ mn[2] # base[p].name
     /\ base[p].name # ""
     /\ mn[2] \in Elems(base[p].aliases.list)

(***************************************************************************)
(* What a whole run of process_country leaves, as a function of the        *)
(* catalog file and the pending files: lines 131-165 folded over the files *)
(* and their records.                                                      *)
(***************************************************************************)
\* lines 147-156 over the records from i on; ok is FALSE when one raised
RECURSIVE FoldRecords(_, _, _)
FoldRecords(st, recs, i) ==
  IF i > Len(recs) THEN st
  ELSE IF Raises(recs[i]) THEN [st EXCEPT !.ok = FALSE]
  ELSE LET na == normalize_app(recs[i], CC)
           m == find_match(na, st.idx)
       IN  IF m # NoMatch
           THEN FoldRecords([st EXCEPT !.base[m] = merge_one(st.base[m], na)], recs, i + 1)
           ELSE FoldRecords([st EXCEPT !.base = Append(st.base, na),
                                       !.idx = index_apps(Append(st.base, na))], recs, i + 1)

\* lines 143-161 over the files from i on; a file is archived unless a record raised
RECURSIVE FoldFiles(_, _, _)
FoldFiles(st, files, i) ==
  IF i > Len(files) THEN st
  ELSE LET after == FoldRecords([st EXCEPT !.ok = TRUE], load_json(files[i].file), 1)
       IN  FoldFiles([after EXCEPT !.changed = st.changed \/ after.ok], files, i + 1)

\* lines 131-133 and 163-165: the catalog file after the run
RunOver(cat, files) ==
  LET loaded == load_json(cat)
      normalized == [i \in 1..Len(loaded) |-> normalize_app(loaded[i], CC)]
      st == FoldFiles([base |-> normalized, idx |-> index_apps(normalized),
                       ok |-> TRUE, changed |-> FALSE], files, 1)
  IN  IF st.changed THEN save_json(sort_by_id(st.base)) ELSE cat

FileNames(files) == { files[i].name : i \in 1..Len(files) }

\* the files of this run that were archived
Archived == SelectSeq(inbox_files, LAMBDA f : f.name \notin FileNames(inbox))

\* C11: of a pending file that cannot be parsed and a well-formed one, the first
\* is reported as an error and stays in the inbox, the second is merged and
\* archived.
C11_MalformedIsolated ==
  (pc = "done" /\ inbox_files # <<>>) =>
     \A i \in 1..Len(inbox_files) :
        inbox_files[i].file.kind = "unreadable" =>
           /\ inbox_files[i].name \in Elems(summary)
           /\ inbox_files[i].name \in FileNames(inbox)
           /\ inbox_files[i].name \notin FileNames(processed)

\* C12: when a record of a pending file raised after records of the file were
\* folded in, the catalog the run persists holds what the files processed to
\* their end contributed, and nothing of the other file.
C12_FileAllOrNothing ==
  (pc = "done" /\ changed /\ ~interrupted) => catalog = RunOver(cat0, Archived)

PersistedIds == [i \in 1..Len(Records(catalog)) |-> Records(catalog)[i].id]

\* C13 as stated: the array a run has written is sorted ascending by id: of two
\* adjacent records the earlier id is not greater than the later id.
C13_SortedById ==
  (pc = "done" /\ writes >= 1) =>
     \A i \in 1..(Len(PersistedIds) - 1) : ~StrLess(PersistedIds[i + 1], PersistedIds[i])

\* C13 as amended: the array a run has written is sorted ascending by the
\* lower-cased id: of two adjacent records the earlier id, lower-cased, is not
\* greater than the later id, lower-cased.
C13_SortedByLowerId ==
  (pc = "done" /\ writes >= 1) =>
     \A i \in 1..(Len(PersistedIds) - 1) :
        ~StrLess(Lower(PersistedIds[i + 1]), Lower(PersistedIds[i]))

\* a run has written a catalog of three records or more in which an appended
\* record, its id in upper case, is not the last
C13_Witness ==
  /\ pc = "done"
  /\ writes >= 1
  /\ added_cnt >= 1
  /\ Len(PersistedIds) >= 3
  /\ \E i \in 1..(Len(PersistedIds) - 1) : Lower(PersistedIds[i]) # PersistedIds[i]

\* C14 as stated: the flag process_country returns is true exactly when the
\* catalog the run leaves differs from the catalog before the run.
C14_FlagIffDiffers ==
  pc = "done" => (changed <=> catalog # cat0)

\* C15: loading the region's catalog never fails the run: a missing, empty or
\* unparseable catalog file is taken as an empty catalog (the catalog in memory
\* holds the records appended in the run and no other) and the run goes on.
C15_CatalogLoadNeverFails ==
  /\ pc # "crashed"
  /\ (pc \notin {"start", "crashed"} /\ cat0.kind \in {"missing", "unreadable"}) =>
        Len(base) = added_cnt

\* C16: a record without id, name, web host and universal link is dropped: it
\* is neither appended to the catalog nor merged into a record, and the
\* records after it in the file are processed.
C16_UnidentifiedDropped ==
  (pc = "rec" /\ recIx > 1 /\ apps[recIx - 1] = DraftNone) => last.op \notin {"add", "merge"}

\* the name leaves nothing to make the id of: the slug is empty before any fallback
EmptySlug(kind, n) ==
  IF kind = "normalize_app" THEN slug_cut(Strip(n)) = "" ELSE slugify_ascii(n) = ""

\* C17: the id synthesized for a name whose slug is empty is the same on every
\* run, and it is not one constant shared by all such names: some other name
\* whose slug is empty gets a different id.
C17_DigestFallback ==
  \A i \in 1..Len(rOut) :
    /\ rOut[i] = rOut[1]
    /\ EmptySlug(rKind, rDst) =>
         \E n \in SynthNames : EmptySlug(rKind, n) /\ SynthId(rKind, n) # rOut[i][1]

\* C18: when the first run was interrupted between two files, after one was
\* archived, and the script was started again, the catalog persisted in the end
\* is the catalog an uninterrupted run over the same inbox persists.
C18_InterruptionSafe ==
  (pc = "done" /\ interrupted) => catalog = RunOver(given.catalog, given.inbox)

\* C19: within one run the catalog file is written at most once, never while
\* the files are still being processed, and only when every record of every
\* pending file was folded in: no file was reported as an error and no file
\* was unreadable.
C19_WrittenOnceAfterAll ==
  /\ writes <= 1
  /\ pc \in {"file", "rec"} => writes = 0
  /\ writes >= 1 =>
       /\ summary = <<>>
       /\ \A i \in 1..Len(inbox_files) : inbox_files[i].file.kind # "unreadable"

\* the known apps holding an alias the name equals under norm_key
AppsOfName(n) ==
  { i \in 1..Len(known_apps) :
      \E j \in 1..Len(known_apps[i].aliases) : norm_key(known_apps[i].aliases[j]) = norm_key(n) }

\* C20: two input names that each equal, under norm_key, an alias of the same
\* known app are resolved to the same stable id and the same pending file, and
\* after both calls the aliases of that file hold both names.
C20_SameAppSameFile ==
  \A a, b \in 1..Len(touched_files) :
    (AppsOfName(rows[a][1]) \cap AppsOfName(rows[b][1]) # {}) =>
      /\ touched_files[a] = touched_files[b]
      /\ Contains(pending[touched_files[a]].obj.aliases.list, rows[a][1])
      /\ Contains(pending[touched_files[a]].obj.aliases.list, rows[b][1])

\* C21: host_from_url returns the network location of the URL in lower case
\* with one leading "www." removed and nothing else: a host that does not
\* begin with "www." comes back unchanged, and what follows a removed "www."
\* is kept.
C21_WwwPrefixOnly ==
  rOut # <<>> =>
    LET h == Lower(urlparse_netloc(rDst))
    IN  rOut[1] = IF StartsWith(h, "www.") THEN SubSeq(h, 5, Len(h)) ELSE h

\* the draft and the record share an identity: the lower-cased name of the
\* draft is the name of the record, or one of its aliases is an alias of the
\* record, or one of its web hosts is a web host of the record
SharesIdentity(na, r) ==
  \/ Lower(na.name) # "" /\ Lower(na.name) = StripLower(r.name)
  \/ \E x \in Elems(ensure_list(na.aliases)) :
       Lower(x) # "" /\ Lower(x) \in Elems(StripLowerAll(ensure_list(r.aliases)))
  \/ \E x \in Elems(ensure_list(na.webHosts)) :
       Lower(x) # "" /\ Lower(x) \in Elems(StripLowerAll(ensure_list(r.webHosts)))

\* C22: a draft is appended as a new record only when it shares no name, alias
\* or web host with any record the in-memory catalog holds at that moment,
\* values added by an earlier merge of the same run included.
C22_CreatedOnlyUnmatched ==
  last.op = "add" => \A r \in Elems(last.before) : ~SharesIdentity(last.na, r)

\* the calls made so far that wrote the file f, in order
CallsOf(f) == { a \in 1..Len(touched_files) : touched_files[a] = f }

\* the countries other than "Global" submitted in those calls
Submitted(f) == { rows[a][2] : a \in CallsOf(f) } \ {Global}

\* the call that submitted the country first
FirstCall(f, c) == CHOOSE a \in CallsOf(f) : rows[a][2] = c /\ \A b \in CallsOf(f) : rows[b][2] = c => a <= b

PositionsOf(list, c) == { i \in 1..Len(list) : list[i] = c }

\* C23: for every pending file written by calls of generate_or_update, the
\* country_list of its source, when present, holds every country other than
\* "Global" submitted in those calls exactly once and in first-seen order;
\* and it is present once a call found the file already written by an earlier
\* call and one of the calls submitted a country other than "Global".
C23_CountryHistory ==
  \A f \in DOMAIN pending :
    CallsOf(f) # {} =>
      LET source == pending[f].obj.source
      IN  /\ "country_list" \in DOMAIN source =>
               /\ \A c \in Submitted(f) : Cardinality(PositionsOf(source.country_list, c)) = 1
               /\ \A c, d \in Submitted(f) :
                    FirstCall(f, c) < FirstCall(f, d) =>
                      \A i \in PositionsOf(source.country_list, c), j \in PositionsOf(source.country_list, d) : i < j
          /\ (Cardinality(CallsOf(f)) >= 2 /\ Submitted(f) # {}) => "country_list" \in DOMAIN source

\* three requests of Minecraft, from JP, from US and from JP again, wrote a
\* file that did not exist; its history is JP, US
C23_Witness ==
  /\ touched_files = <<"minecraft", "minecraft", "minecraft">>
  /\ <<rows[1][2], rows[2][2], rows[3][2]>> = <<"JP", "US", "JP">>
  /\ rows[1][1] # rows[2][1]
  /\ pending["minecraft"].obj.source.country_list = <<"JP", "US">>
  /\ pending["minecraft"].obj.source.country = "JP"
====
